---- MODULE Spec2Model ----
(***************************************************************************)
(* Atomic Chess (src/ChessVar.py): the ChessVar game object, its single    *)
(* mutating entry point make_move, the explosion helpers and the six       *)
(* per-piece is_move_valid rules.                                          *)
(*                                                                         *)
(* A square argument is a Python string, modelled as the sequence of its   *)
(* character codes ("e2" is <<101, 50>>).  The board is the 8x8 list of    *)
(* lists, indexed from 0, with Python's index semantics: a negative index  *)
(* counts from the end, an index outside -8..7 raises IndexError.          *)
(***************************************************************************)
EXTENDS Integers, Sequences, FiniteSets, TLC

VARIABLES board, turn, status, ret, exit, moved, movers, asked, script, ply, calls

vars == <<board, turn, status, ret, exit, moved, movers, asked, script, ply, calls>>

(***************************************************************************)
(* Bounds                                                                  *)
(***************************************************************************)
\* number of make_move calls with arbitrary arguments after the scripted ones
MaxCalls == 1

(***************************************************************************)
(* Pieces and the board                                                    *)
(***************************************************************************)
None == [kind |-> "None", color |-> "None"]

Piece(k, c) == [kind |-> k, color |-> c]

Pawn(c) == Piece("P", c)
Rook(c) == Piece("R", c)
Knight(c) == Piece("N", c)
Bishop(c) == Piece("B", c)
Queen(c) == Piece("Q", c)
King(c) == Piece("K", c)

Size == 8

Idx == 0 .. (Size - 1)

BackRank(c) ==
    [col \in Idx |->
        CASE col = 0 -> Rook(c)
          [] col = 1 -> Knight(c)
          [] col = 2 -> Bishop(c)
          [] col = 3 -> Queen(c)
          [] col = 4 -> King(c)
          [] col = 5 -> Bishop(c)
          [] col = 6 -> Knight(c)
          [] col = 7 -> Rook(c)]

NewBoard ==
    [row \in Idx |->
        CASE row = 0 -> BackRank("b")
          [] row = 1 -> [col \in Idx |-> Pawn("b")]
          [] row = 6 -> [col \in Idx |-> Pawn("w")]
          [] row = 7 -> BackRank("w")
          [] OTHER   -> [col \in Idx |-> None]]

\* Python list indexing: i in -8..7 is in range, a negative i counts from the end
InRange(i) == (0 - Size) <= i /\ i <= Size - 1

PyIndex(i) == IF i < 0 THEN i + Size ELSE i

At(b, row, col) == b[PyIndex(row)][PyIndex(col)]

SetAt(b, row, col, p) == [b EXCEPT ![PyIndex(row)][PyIndex(col)] = p]

Abs(x) == IF x < 0 THEN 0 - x ELSE x

Max(x, y) == IF x > y THEN x ELSE y

Min(x, y) == IF x < y THEN x ELSE y

(***************************************************************************)
(* Piece movement rules                                                    *)
(***************************************************************************)
\* a pawn rule whose double step does not look at the square it passes over
Pawn_is_move_valid_jumps(color, row_from, column_from, row_to, column_to, square_to, b) ==
    \/ /\ square_to = None
       /\ column_from = column_to
       /\ \/ /\ color = "w"
             /\ \/ row_from = 6 /\ row_from - row_to = 2
                \/ row_from - row_to = 1
          \/ /\ color = "b"
             /\ \/ row_from = 1 /\ row_to - row_from = 2
                \/ row_to - row_from = 1
    \/ /\ square_to # None
       /\ Abs(column_from - column_to) = 1
       /\ \/ color = "w" /\ row_from - row_to = 1
          \/ color = "b" /\ row_to - row_from = 1

Pawn_is_move_valid(color, row_from, column_from, row_to, column_to, square_to, b) ==
    \/ /\ square_to = None
       /\ column_from = column_to
       /\ \/ /\ color = "w"
             /\ \/ /\ row_from = 6
                   /\ row_from - row_to = 2
                   /\ At(b, row_from - 1, column_from) = None
                \/ row_from - row_to = 1
          \/ /\ color = "b"
             /\ \/ /\ row_from = 1
                   /\ row_to - row_from = 2
                   /\ At(b, row_from + 1, column_from) = None
                \/ row_to - row_from = 1
    \/ /\ square_to # None
       /\ Abs(column_from - column_to) = 1
       /\ \/ color = "w" /\ row_from - row_to = 1
          \/ color = "b" /\ row_to - row_from = 1

\* range(x + step, y, step) with step = 1 if x < y else -1
Between(x, y) == IF x < y THEN (x + 1) .. (y - 1) ELSE (y + 1) .. (x - 1)

\* a rook rule that does not look at the path
Rook_is_move_valid_jumps(color, row_from, column_from, row_to, column_to, square_to, b) ==
    column_from = column_to \/ row_from = row_to

Rook_is_move_valid(color, row_from, column_from, row_to, column_to, square_to, b) ==
    IF column_from = column_to
    THEN \A row \in Between(row_from, row_to) : At(b, row, column_from) = None
    ELSE IF row_from = row_to
         THEN \A column \in Between(column_from, column_to) : At(b, row_from, column) = None
         ELSE FALSE

\* a knight rule without the one-file-two-rows jumps
Knight_is_move_valid_flat(color, row_from, column_from, row_to, column_to, square_to, b) ==
    Abs(column_from - column_to) = 2 /\ Abs(row_from - row_to) = 1

Knight_is_move_valid(color, row_from, column_from, row_to, column_to, square_to, b) ==
    LET two_by_one == Abs(column_from - column_to) = 2 /\ Abs(row_from - row_to) = 1
        one_by_two == Abs(column_from - column_to) = 1 /\ Abs(row_from - row_to) = 2
    IN  two_by_one \/ one_by_two

\* the squares whose content the while loop of Bishop.is_move_valid reads, in
\* the order it reads them, up to its return
RECURSIVE BishopInspected(_, _, _, _, _, _, _)
BishopInspected(b, next_row, next_column, row_step, col_step, row_to, column_to) ==
    IF next_row # row_to /\ next_column # column_to
    THEN IF At(b, next_row, next_column) # None
         THEN << <<next_row, next_column>> >>
         ELSE << <<next_row, next_column>> >>
              \o BishopInspected(b, next_row + row_step, next_column + col_step,
                                 row_step, col_step, row_to, column_to)
    ELSE << >>

\* a path loop that stops one square early
RECURSIVE BishopPath_stops_early(_, _, _, _, _, _, _)
BishopPath_stops_early(b, next_row, next_column, row_step, col_step, row_to, column_to) ==
    IF next_row # row_to /\ next_column # column_to
       /\ next_row + row_step # row_to /\ next_column + col_step # column_to
    THEN IF At(b, next_row, next_column) # None
         THEN FALSE
         ELSE BishopPath_stops_early(b, next_row + row_step, next_column + col_step,
                                     row_step, col_step, row_to, column_to)
    ELSE TRUE

\* the while loop of Bishop.is_move_valid, from (next_row, next_column)
RECURSIVE BishopPath(_, _, _, _, _, _, _)
BishopPath(b, next_row, next_column, row_step, col_step, row_to, column_to) ==
    IF next_row # row_to /\ next_column # column_to
    THEN IF At(b, next_row, next_column) # None
         THEN FALSE
         ELSE BishopPath(b, next_row + row_step, next_column + col_step,
                         row_step, col_step, row_to, column_to)
    ELSE TRUE

Bishop_is_move_valid(color, row_from, column_from, row_to, column_to, square_to, b) ==
    IF Abs(column_from - column_to) # Abs(row_from - row_to)
    THEN FALSE
    ELSE LET row_step == IF row_from < row_to THEN 1 ELSE -1
             col_step == IF column_from < column_to THEN 1 ELSE -1
         IN  BishopPath(b, row_from + row_step, column_from + col_step,
                        row_step, col_step, row_to, column_to)

\* a queen rule that forgets the diagonals
Queen_is_move_valid_straight(color, row_from, column_from, row_to, column_to, square_to, b) ==
    Rook_is_move_valid(color, row_from, column_from, row_to, column_to, square_to, b)

Queen_is_move_valid(color, row_from, column_from, row_to, column_to, square_to, b) ==
    LET rook_move == Rook_is_move_valid(color, row_from, column_from, row_to, column_to, square_to, b)
        bishop_move == Bishop_is_move_valid(color, row_from, column_from, row_to, column_to, square_to, b)
    IN  rook_move \/ bishop_move

\* a king rule that lets the king step two squares
King_is_move_valid_two_steps(color, row_from, column_from, row_to, column_to, square_to, b) ==
    /\ square_to = None
    /\ 0 <= Abs(row_from - row_to) /\ Abs(row_from - row_to) <= 2
    /\ 0 <= Abs(column_from - column_to) /\ Abs(column_from - column_to) <= 2

King_is_move_valid(color, row_from, column_from, row_to, column_to, square_to, b) ==
    /\ square_to = None
    /\ 0 <= Abs(row_from - row_to) /\ Abs(row_from - row_to) <= 1
    /\ 0 <= Abs(column_from - column_to) /\ Abs(column_from - column_to) <= 1

\* square_from.is_move_valid(...): dispatch on the class of the piece
is_move_valid(p, row_from, column_from, row_to, column_to, square_to, b) ==
    CASE p.kind = "P" -> Pawn_is_move_valid(p.color, row_from, column_from, row_to, column_to, square_to, b)
      [] p.kind = "R" -> Rook_is_move_valid(p.color, row_from, column_from, row_to, column_to, square_to, b)
      [] p.kind = "N" -> Knight_is_move_valid(p.color, row_from, column_from, row_to, column_to, square_to, b)
      [] p.kind = "B" -> Bishop_is_move_valid(p.color, row_from, column_from, row_to, column_to, square_to, b)
      [] p.kind = "Q" -> Queen_is_move_valid(p.color, row_from, column_from, row_to, column_to, square_to, b)
      [] p.kind = "K" -> King_is_move_valid(p.color, row_from, column_from, row_to, column_to, square_to, b)

(***************************************************************************)
(* ChessVar                                                                *)
(***************************************************************************)
change_turn(tn) == IF tn = "w" THEN "b" ELSE "w"

\* the squares visited by the two nested range() loops around (row_to, column_to)
Blast(row_to, column_to) ==
    (Max(row_to - 1, 0) .. (Min(row_to + 2, Size) - 1))
        \X (Max(column_to - 1, 0) .. (Min(column_to + 2, Size) - 1))

\* a guard whose row loop stops one row short: range(max(row_to - 1, 0), min(row_to + 1, 8))
is_own_king_exploded_short(b, tn, row_to, column_to) ==
    \E sq \in (Max(row_to - 1, 0) .. (Min(row_to + 1, Size) - 1))
                \X (Max(column_to - 1, 0) .. (Min(column_to + 2, Size) - 1)) :
        LET piece == b[sq[1]][sq[2]]
        IN  piece # None /\ piece.kind = "K" /\ piece.color = tn

\* a guard that looks at the destination square only
is_own_king_exploded_centre(b, tn, row_to, column_to) ==
    LET piece == b[row_to][column_to]
    IN  piece # None /\ piece.kind = "K" /\ piece.color = tn

is_own_king_exploded(b, tn, row_to, column_to) ==
    \E sq \in Blast(row_to, column_to) :
        LET piece == b[sq[1]][sq[2]]
        IN  piece # None /\ piece.kind = "K" /\ piece.color = tn

\* a scan that compares the king's colour with == as is_own_king_exploded does
is_opponent_king_exploded_same_color(b, tn, row_to, column_to) ==
    \E sq \in Blast(row_to, column_to) :
        LET piece == b[sq[1]][sq[2]]
        IN  piece # None /\ piece.kind = "K" /\ piece.color = tn

is_opponent_king_exploded(b, tn, row_to, column_to) ==
    \E sq \in Blast(row_to, column_to) :
        LET piece == b[sq[1]][sq[2]]
        IN  piece # None /\ piece.kind = "K" /\ piece.color # tn

\* an explosion that spares every pawn, the captured one included
execute_explosion_spares_pawns(b, row_to, column_to) ==
    [row \in Idx |-> [column \in Idx |->
        LET piece == b[row][column]
        IN  IF /\ <<row, column>> \in Blast(row_to, column_to)
               /\ piece # None
               /\ ~(piece.kind = "P")
            THEN None
            ELSE piece]]

execute_explosion(b, row_to, column_to) ==
    [row \in Idx |-> [column \in Idx |->
        LET piece == b[row][column]
        IN  IF /\ <<row, column>> \in Blast(row_to, column_to)
               /\ piece # None
               /\ ~(piece.kind = "P" /\ (row # row_to \/ column # column_to))
            THEN None
            ELSE piece]]

\* the outcome of a call: the fields of the game object, what the call returned
\* ("True", "False", or the exception it raised) and the last line it executed
Result(b, tn, st, r, line) == [board |-> b, turn |-> tn, status |-> st, ret |-> r, exit |-> line]

\* a move that puts the piece on the destination and leaves it on the origin
move_without_capture_copies(b, tn, st, row_from, column_from, row_to, column_to, square_from) ==
    Result(SetAt(b, row_to, column_to, square_from), change_turn(tn), st, "True", 395)

\* lines 392-395: the move without capture
move_without_capture(b, tn, st, row_from, column_from, row_to, column_to, square_from) ==
    LET b1 == SetAt(b, row_from, column_from, None)
        b2 == SetAt(b1, row_to, column_to, square_from)
    IN  Result(b2, change_turn(tn), st, "True", 395)

\* a capture that clears the origin before it asks whether the own king explodes
move_with_capture_clears_first(b, tn, st, row_from, column_from, row_to, column_to) ==
    LET b1 == SetAt(b, row_from, column_from, None)
    IN  IF is_own_king_exploded(b, tn, row_to, column_to)
        THEN Result(b1, tn, st, "False", 401)
        ELSE LET won == is_opponent_king_exploded(b1, tn, row_to, column_to)
                 st1 == IF won THEN (IF tn = "w" THEN "WHITE WON" ELSE "BLACK WON") ELSE st
                 tn1 == IF won THEN tn ELSE change_turn(tn)
             IN  Result(execute_explosion(b1, row_to, column_to), tn1, st1, "True", 417)

\* a capture that looks for the opponent's king after the explosion has run
move_with_capture_scans_after_blast(b, tn, st, row_from, column_from, row_to, column_to) ==
    IF is_own_king_exploded(b, tn, row_to, column_to)
    THEN Result(b, tn, st, "False", 401)
    ELSE LET b1 == SetAt(b, row_from, column_from, None)
             b2 == execute_explosion(b1, row_to, column_to)
             won == is_opponent_king_exploded(b2, tn, row_to, column_to)
             st1 == IF won THEN (IF tn = "w" THEN "WHITE WON" ELSE "BLACK WON") ELSE st
             tn1 == IF won THEN tn ELSE change_turn(tn)
         IN  Result(b2, tn1, st1, "True", 417)

\* lines 398-417: the capture
move_with_capture(b, tn, st, row_from, column_from, row_to, column_to) ==
    IF is_own_king_exploded(b, tn, row_to, column_to)
    THEN Result(b, tn, st, "False", 401)
    ELSE LET b1 == SetAt(b, row_from, column_from, None)
             won == is_opponent_king_exploded(b1, tn, row_to, column_to)
             st1 == IF won THEN (IF tn = "w" THEN "WHITE WON" ELSE "BLACK WON") ELSE st
             tn1 == IF won THEN tn ELSE change_turn(tn)
         IN  Result(execute_explosion(b1, row_to, column_to), tn1, st1, "True", 417)

\* int(string[1]) and ord(string[0]) - ord('a'); the strings are 1-indexed sequences here
OrdA == 97

Ord0 == 48

RowOf(s) == 8 - (s[2] - Ord0)

ColumnOf(s) == s[1] - OrdA

\* a first gate that knows one winner only
game_over_white_only(st) == st = "WHITE WON"

game_over(st) == st # "UNFINISHED"

not_movers_piece(square_from, tn) == square_from = None \/ square_from.color # tn

outside_board(row_to, column_to) ==
    ~(0 <= column_to /\ column_to <= 7 /\ 0 <= row_to /\ row_to <= 7)

own_piece_on(square_to, tn) == square_to # None /\ square_to.color = tn

make_move(b, tn, st, string_from, string_to) ==
    IF game_over(st) THEN Result(b, tn, st, "False", 359)
    ELSE IF string_from = string_to THEN Result(b, tn, st, "False", 363)
    ELSE
    LET row_from == RowOf(string_from)
        column_from == ColumnOf(string_from)
        row_to == RowOf(string_to)
        column_to == ColumnOf(string_to)
    IN
    IF ~(InRange(row_from) /\ InRange(column_from)) THEN Result(b, tn, st, "IndexError", 372)
    ELSE IF ~(InRange(row_to) /\ InRange(column_to)) THEN Result(b, tn, st, "IndexError", 374)
    ELSE
    LET square_from == At(b, row_from, column_from)
        square_to == At(b, row_to, column_to)
    IN
    IF not_movers_piece(square_from, tn) THEN Result(b, tn, st, "False", 378)
    ELSE IF outside_board(row_to, column_to) THEN Result(b, tn, st, "False", 382)
    ELSE IF own_piece_on(square_to, tn) THEN Result(b, tn, st, "False", 386)
    ELSE IF is_move_valid(square_from, row_from, column_from, row_to, column_to, square_to, b)
         THEN IF square_to = None
              THEN move_without_capture(b, tn, st, row_from, column_from, row_to, column_to, square_from)
              ELSE move_with_capture(b, tn, st, row_from, column_from, row_to, column_to)
         ELSE Result(b, tn, st, "False", 423)

(***************************************************************************)
(* Arguments of make_move                                                  *)
(***************************************************************************)
\* first characters '`', 'a' .. 'h', 'i' and second characters '0' .. '9'
FileChars == (OrdA - 1) .. (OrdA + Size)

RankChars == Ord0 .. (Ord0 + 9)

Strings == {<<f, r>> : f \in FileChars, r \in RankChars}

\* the same square written with a trailing character, "e2x"
Longer(s) == s \o <<120>>

File == [a |-> 97, b |-> 98, c |-> 99, d |-> 100, e |-> 101, f |-> 102, g |-> 103, h |-> 104]

Sq(f, r) == <<File[f], Ord0 + r>>

Mv(f1, r1, f2, r2) == <<Sq(f1, r1), Sq(f2, r2)>>

\* scripted games: each is a sequence of make_move calls played from a new game
Script ==
    << \* 1. Nf3 a6 2. Ne5 a5 3. Nxf7: the blast on f7 takes the king on e8
       << Mv("g", 1, "f", 3), Mv("a", 7, "a", 6), Mv("f", 3, "e", 5),
          Mv("a", 6, "a", 5), Mv("e", 5, "f", 7) >>,
       \* 1. a3 Nf6 2. a4 Ne4 3. a5 Nxf2: the blast on f2 takes the king on e1
       << Mv("a", 2, "a", 3), Mv("g", 8, "f", 6), Mv("a", 3, "a", 4),
          Mv("f", 6, "e", 4), Mv("a", 4, "a", 5), Mv("e", 4, "f", 2) >>,
       \* White to move with Nxf7 and Nxd7 at hand
       << Mv("g", 1, "f", 3), Mv("a", 7, "a", 6), Mv("f", 3, "e", 5),
          Mv("a", 6, "a", 5) >>,
       \* Black to move with Nxf2 and Nxd2 at hand
       << Mv("a", 2, "a", 3), Mv("g", 8, "f", 6), Mv("a", 3, "a", 4),
          Mv("f", 6, "e", 4), Mv("a", 4, "a", 5) >>,
       \* 1. e3 d5 2. Ke2 d4 3. Kd3 a6: the white king stands next to the pawn on d4
       << Mv("e", 2, "e", 3), Mv("d", 7, "d", 5), Mv("e", 1, "e", 2),
          Mv("d", 5, "d", 4), Mv("e", 2, "d", 3), Mv("a", 7, "a", 6) >>,
       \* 1. Nc3 h6 2. Nb5 h5: Nxa7 and Nxc7 blast pieces and pawns, no king
       << Mv("b", 1, "c", 3), Mv("h", 7, "h", 6), Mv("c", 3, "b", 5),
          Mv("h", 6, "h", 5) >>,
       \* 1. d3 g5: the bishop on c1 sees g5 on its diagonal
       << Mv("d", 2, "d", 3), Mv("g", 7, "g", 5) >>,
       \* 1. a4 h5 2. Ra3 h4: the rook on a3 has an open rank
       << Mv("a", 2, "a", 4), Mv("h", 7, "h", 5), Mv("a", 1, "a", 3),
          Mv("h", 5, "h", 4) >>,
       \* 1. Nh3 a6: a white knight on the h file
       << Mv("g", 1, "h", 3), Mv("a", 7, "a", 6) >>,
       \* 1. Nf3 Nc6: the knight on f3 stands in front of the pawn on f2
       << Mv("g", 1, "f", 3), Mv("b", 8, "c", 6) >>,
       \* 1. Nf3 Nc6 2. a3: the knight on c6 stands in front of the pawn on c7
       << Mv("g", 1, "f", 3), Mv("b", 8, "c", 6), Mv("a", 2, "a", 3) >>,
       \* 1. e4 d5: exd5 at hand
       << Mv("e", 2, "e", 4), Mv("d", 7, "d", 5) >>,
       \* 1. e4 d5 2. a3: dxe4 at hand
       << Mv("e", 2, "e", 4), Mv("d", 7, "d", 5), Mv("a", 2, "a", 3) >>,
       \* 1. d4 e6 2. d5 Ke7 3. d6: the black king stands next to the pawn on d6
       << Mv("d", 2, "d", 4), Mv("e", 7, "e", 6), Mv("d", 4, "d", 5),
          Mv("e", 8, "e", 7), Mv("d", 5, "d", 6) >>,
       \* 1. a3 e6 2. a4 Qg5: d8 is empty, one row from the row that rank 9 would be
       << Mv("a", 2, "a", 3), Mv("e", 7, "e", 6), Mv("a", 3, "a", 4),
          Mv("d", 8, "g", 5) >>,
       \* 1. b4 a5 2. bxa5 b5 3. Nc3 b4 4. h3 b3 5. h4 b2 6. h5 b1 7. h6 Nc6 8. a3:
       \* a black pawn stands on b1 and b8 is empty
       << Mv("b", 2, "b", 4), Mv("a", 7, "a", 5), Mv("b", 4, "a", 5),
          Mv("b", 7, "b", 5), Mv("b", 1, "c", 3), Mv("b", 5, "b", 4),
          Mv("h", 2, "h", 3), Mv("b", 4, "b", 3), Mv("h", 3, "h", 4),
          Mv("b", 3, "b", 2), Mv("h", 4, "h", 5), Mv("b", 2, "b", 1),
          Mv("h", 5, "h", 6), Mv("b", 8, "c", 6), Mv("a", 2, "a", 3) >>
    >>

(***************************************************************************)
(* The game object and its operations                                      *)
(***************************************************************************)
Init ==
    /\ board = NewBoard
    /\ status = "UNFINISHED"
    /\ turn = "w"
    /\ ret = "none"
    /\ exit = 0
    /\ moved = <<>>
    /\ movers = <<>>
    /\ asked = None
    /\ script = 0
    /\ ply = 0
    /\ calls = 0

\* the piece a call takes from the board, where string_from can be indexed
Mover(b, string_from) ==
    IF InRange(RowOf(string_from)) /\ InRange(ColumnOf(string_from))
    THEN At(b, RowOf(string_from), ColumnOf(string_from))
    ELSE None

\* one call game.make_move(string_from, string_to); moved and movers keep the
\* arguments of the last executed move and the colours of the pieces moved so far
Call(string_from, string_to) ==
    \E r \in {make_move(board, turn, status, string_from, string_to)} :
        /\ board' = r.board
        /\ turn' = r.turn
        /\ status' = r.status
        /\ ret' = r.ret
        /\ exit' = r.exit
        /\ moved' = IF r.ret = "True" THEN <<string_from, string_to>> ELSE moved
        /\ movers' = IF r.ret = "True"
                     THEN Append(movers, Mover(board, string_from).color)
                     ELSE movers
        /\ UNCHANGED asked

\* the next call of a scripted game
ScriptedCall ==
    /\ calls = 0
    /\ \E l \in 1 .. Len(Script) :
          /\ script \in {0, l}
          /\ ply < Len(Script[l])
          /\ Call(Script[l][ply + 1][1], Script[l][ply + 1][2])
          /\ script' = l
          /\ ply' = ply + 1
    /\ UNCHANGED calls

\* a call with arbitrary arguments, on a new game or at the end of a scripted game
AnyCall ==
    /\ calls < MaxCalls
    /\ IF script = 0 THEN TRUE ELSE ply = Len(Script[script])
    /\ \E string_from \in Strings :
          \E string_to \in Strings \cup {Longer(string_from)} :
              Call(string_from, string_to)
    /\ calls' = calls + 1
    /\ UNCHANGED <<script, ply>>

Next == ScriptedCall \/ AnyCall

Spec == Init /\ [][Next]_vars

Kinds == {"P", "R", "N", "B", "Q", "K"}

Colors == {"w", "b"}

\* one evaluation piece.is_move_valid(row_from, column_from, row_to, column_to,
\* square_to, board) on the board of the game, for a piece of any class and
\* colour and any two different squares of the board; it changes nothing in
\* the game, asked and ret keep the piece and the answer
RuleQuery ==
    /\ calls = 0
    /\ \E k \in Kinds, c \in Colors, o \in Idx \X Idx, d \in Idx \X Idx :
          /\ o # d
          /\ asked' = Piece(k, c)
          /\ ret' = IF is_move_valid(Piece(k, c), o[1], o[2], d[1], d[2], board[d[1]][d[2]], board)
                    THEN "True" ELSE "False"
    /\ exit' = 389
    /\ calls' = calls + 1
    /\ UNCHANGED <<board, turn, status, moved, movers, script, ply>>

NextRules == ScriptedCall \/ RuleQuery

\* the scripted games, with the piece rules evaluated on every board they reach
SpecRules == Init /\ [][NextRules]_vars

\* every scripted call is an executed move
ScriptIsPlayed == (calls = 0 /\ ply > 0) => ret = "True"

(***************************************************************************)
(* Vocabulary of the properties                                            *)
(***************************************************************************)
Squares == Idx \X Idx

\* the squares (row, column) named by the arguments
Coord(s) == <<RowOf(s), ColumnOf(s)>>

OnBoard(s) == Coord(s) \in Squares

BoardStrings == {s \in Strings : OnBoard(s)}

\* the strings the board can be indexed with without IndexError
Readable == {s \in Strings : InRange(RowOf(s)) /\ InRange(ColumnOf(s))}

Arguments(string_from) == Strings \cup {Longer(string_from)}

On(b, sq) == b[sq[1]][sq[2]]

\* sq is the square d or one of its up-to-8 neighbours
Near(sq, d) == Abs(sq[1] - d[1]) <= 1 /\ Abs(sq[2] - d[2]) <= 1

Opponent(c) == IF c = "w" THEN "b" ELSE "w"

Win(c) == IF c = "w" THEN "WHITE WON" ELSE "BLACK WON"

\* a call left the game object as it was
Same(r) == r.board = board /\ r.turn = turn /\ r.status = status

Untouched == board' = board /\ turn' = turn /\ status' = status

\* this step is a call that executed a move onto an occupied / an empty square
Captures == ret' = "True" /\ On(board, Coord(moved'[2])) # None

Relocates == ret' = "True" /\ On(board, Coord(moved'[2])) = None

(***************************************************************************)
(* Properties                                                              *)
(***************************************************************************)

\* C1: whenever make_move returns False, by whichever gate, the board, the
\* turn and the status are what they were before the call.
C1_RejectionMutatesNothing == [][ret' = "False" => Untouched]_vars

C1_RejectedAtTheLastGate == ret = "False" /\ exit = 401

\* C2: once the status is WHITE WON or BLACK WON every later call returns
\* False and leaves board, turn and status as they are.
C2_TerminalIsAbsorbing ==
    [][status # "UNFINISHED" => (ret' = "False" /\ Untouched)]_vars

C2_CalledAfterTheEnd == status = "BLACK WON" /\ ret = "False" /\ exit = 359

\* C3: a call whose destination holds an enemy piece while the mover's own
\* king stands on the destination or next to it returns False and changes
\* nothing, whatever board square the origin names.
C3_SelfDestructionGuard ==
    \A string_to \in BoardStrings :
        LET d == Coord(string_to)
        IN  (/\ On(board, d) # None
             /\ On(board, d).color # turn
             /\ \E sq \in Squares : Near(sq, d) /\ On(board, sq) = King(turn))
            => \A string_from \in Readable :
                  LET r == make_move(board, turn, status, string_from, string_to)
                  IN  r.ret = "False" /\ Same(r)

C3_GuardRejected ==
    /\ exit = 401
    /\ status = "UNFINISHED"
    /\ \E d \in Squares, sq \in Squares :
          /\ On(board, d) # None /\ On(board, d).color # turn
          /\ Near(sq, d) /\ On(board, sq) = King(turn)

\* C4: an executed capture with an enemy king on the destination or next to it
\* sets the status to the mover's win, keeps the turn, and empties the square
\* of that king.
C4_WinDetection ==
    [][(/\ Captures
        /\ \E sq \in Squares : /\ Near(sq, Coord(moved'[2]))
                               /\ On(board, sq) = King(Opponent(turn)))
       => (/\ status' = Win(turn)
           /\ turn' = turn
           /\ \A sq \in Squares :
                 On(board, sq) = King(Opponent(turn)) => On(board', sq) = None)]_vars

C4_WonByACapture == ret = "True" /\ exit = 417 /\ status = "WHITE WON" /\ calls = 1

\* C5 as written: after an executed capture on d the square d is empty, every
\* non-pawn on a neighbour of d is removed and every pawn on a neighbour of d
\* is still on its square.
C5_ExplosionResult_AsWritten ==
    [][Captures =>
        LET d == Coord(moved'[2])
        IN  /\ On(board', d) = None
            /\ \A sq \in Squares :
                  (Near(sq, d) /\ sq # d) =>
                      IF On(board, sq).kind = "P"
                      THEN On(board', sq) = On(board, sq)
                      ELSE On(board', sq) = None]_vars

\* C5 amended: ... every pawn on a neighbour of d other than the capturing
\* pawn is still on its square; the capturing piece leaves its square, a pawn
\* included.
C5_ExplosionResult ==
    [][Captures =>
        LET d == Coord(moved'[2])
            o == <<PyIndex(RowOf(moved'[1])), PyIndex(ColumnOf(moved'[1]))>>
        IN  /\ On(board', d) = None
            /\ On(board', o) = None
            /\ \A sq \in Squares :
                  (Near(sq, d) /\ sq # d /\ sq # o) =>
                      IF On(board, sq).kind = "P"
                      THEN On(board', sq) = On(board, sq)
                      ELSE On(board', sq) = None]_vars

C5_PawnOutlivesTheBlast ==
    /\ ret = "True"
    /\ exit = 417
    /\ On(board, Coord(moved[2])) = None
    /\ \E sq \in Squares : /\ Near(sq, Coord(moved[2]))
                           /\ On(board, sq).kind = "P"

\* C6: after an executed move onto an empty square the origin square is empty,
\* the destination holds the piece that was moved, every square other than
\* origin and destination is unchanged, the turn is flipped and the status is
\* UNFINISHED.
C6_RelocationFrame ==
    [][Relocates =>
        LET o == Coord(moved'[1])
            d == Coord(moved'[2])
        IN  /\ \A sq \in Squares :
                  /\ sq = o => On(board', sq) = None
                  /\ sq = d => On(board', sq) = Mover(board, moved'[1])
                  /\ sq \notin {o, d} => On(board', sq) = On(board, sq)
            /\ turn' = Opponent(turn)
            /\ status' = "UNFINISHED"]_vars

\* C7: a call that takes a king from the board is executed only onto an empty
\* square at Chebyshev distance 1, and returns False, changing nothing, when
\* the destination holds an enemy piece, adjacent or not.
C7_KingsNeverCapture ==
    \A string_from \in Readable :
        Mover(board, string_from).kind = "K" =>
            \A string_to \in Arguments(string_from) :
                LET r == make_move(board, turn, status, string_from, string_to)
                    o == Coord(string_from)
                    d == Coord(string_to)
                IN  /\ r.ret = "True" =>
                          /\ d \in Squares
                          /\ On(board, d) = None
                          /\ Max(Abs(o[1] - d[1]), Abs(o[2] - d[2])) = 1
                    /\ (/\ d \in Squares
                        /\ On(board, d) # None
                        /\ On(board, d).color # Mover(board, string_from).color)
                       => (r.ret = "False" /\ Same(r))

C7_KingSteppedNextToAnEnemy ==
    /\ ret = "True"
    /\ exit = 395
    /\ LET d == Coord(moved[2])
       IN  /\ On(board, d).kind = "K"
           /\ \E sq \in Squares : /\ Near(sq, d)
                                  /\ On(board, sq) # None
                                  /\ On(board, sq).color # On(board, d).color

\* C8: every call whose origin square is empty or holds a piece of the side
\* not to move returns False and changes nothing, and the colours of the
\* pieces moved by the executed moves alternate White, Black, White, ...
C8_OnlyTheSideToMoveMoves ==
    /\ \A string_from \in BoardStrings :
          (Mover(board, string_from) = None \/ Mover(board, string_from).color # turn)
          => \A string_to \in Arguments(string_from) :
                LET r == make_move(board, turn, status, string_from, string_to)
                IN  r.ret = "False" /\ Same(r)
    /\ \A i \in 1 .. Len(movers) : movers[i] = IF i % 2 = 1 THEN "w" ELSE "b"

\* C9: a call returns True exactly when it changed board, turn or status, and
\* False exactly when it changed nothing.
C9_TrueIffExecuted ==
    \A string_from \in Strings :
        \A string_to \in Arguments(string_from) :
            LET r == make_move(board, turn, status, string_from, string_to)
            IN  /\ r.ret = "True" <=> ~Same(r)
                /\ r.ret = "False" <=> Same(r)

\* C10: a call whose destination lies outside the board returns False, as an
\* ordinary boolean and without an error, and changes nothing.
C10_DestinationOutsideIsRejected ==
    \A string_from \in Strings :
        \A string_to \in Strings \ BoardStrings :
            LET r == make_move(board, turn, status, string_from, string_to)
            IN  r.ret = "False" /\ Same(r)

\* C11: an executed move ends with a win exactly when it is a capture with the
\* opponent's king on the destination or next to it; every other executed
\* move keeps the status UNFINISHED and flips the turn.
C11_OnlyKingDestructionEnds ==
    [][ret' = "True" =>
        LET blown == /\ On(board, Coord(moved'[2])) # None
                     /\ \E sq \in Squares : /\ Near(sq, Coord(moved'[2]))
                                            /\ On(board, sq) = King(Opponent(turn))
        IN  /\ status' \in {"WHITE WON", "BLACK WON"} <=> blown
            /\ ~blown => (status' = "UNFINISHED" /\ turn' = Opponent(turn))]_vars

C11_CaptureThatDoesNotEnd ==
    /\ ret = "True"
    /\ exit = 417
    /\ status = "UNFINISHED"
    /\ movers[Len(movers)] = Opponent(turn)

\* a rule query changes nothing of the game: every board is the board of a
\* state in which no query has been made yet
BeforeAnyQuery == asked = None

\* forward is towards row 0 for White and towards row 7 for Black
Forward(c) == IF c = "w" THEN -1 ELSE 1

StartRow(c) == IF c = "w" THEN 6 ELSE 1

\* C12: on every board, for every colour, origin o and destination d # o on
\* the board, Pawn.is_move_valid is True exactly when d is empty, in the file
\* of o and one row forward, or two rows forward from the starting row with
\* the square between empty; or d is occupied, one row forward and one file
\* sideways.  On a new game e2-e4 is executed and leaves the move to Black.
C12_PawnRule ==
    /\ BeforeAnyQuery =>
        \A c \in Colors : \A o \in Squares : \A d \in Squares \ {o} :
          Pawn_is_move_valid(c, o[1], o[2], d[1], d[2], On(board, d), board)
          <=> \/ /\ On(board, d) = None
                 /\ d[2] = o[2]
                 /\ \/ d[1] = o[1] + Forward(c)
                    \/ /\ o[1] = StartRow(c)
                       /\ d[1] = o[1] + 2 * Forward(c)
                       /\ On(board, <<o[1] + Forward(c), o[2]>>) = None
              \/ /\ On(board, d) # None
                 /\ d[1] = o[1] + Forward(c)
                 /\ Abs(d[2] - o[2]) = 1
    /\ (board = NewBoard /\ turn = "w" /\ status = "UNFINISHED") =>
          LET r == make_move(board, turn, status, Sq("e", 2), Sq("e", 4))
          IN  /\ r.ret = "True"
              /\ r.board[6][4] = None
              /\ r.board[4][4] = Pawn("w")
              /\ r.turn = "b"

\* a pawn stands two rows in front of its empty starting square, having just moved
C12_PawnDoubleStepped ==
    /\ ret = "True"
    /\ exit = 395
    /\ LET o == Coord(moved[1])
           d == Coord(moved[2])
       IN  /\ o \in Squares
           /\ On(board, d).kind = "P"
           /\ Abs(d[1] - o[1]) = 2

\* the squares strictly between o and d on their line, from o towards d
Sign(x) == IF x > 0 THEN 1 ELSE IF x < 0 THEN -1 ELSE 0
Steps(o, d) == Max(Abs(d[1] - o[1]), Abs(d[2] - o[2]))
PathBetween(o, d) ==
    [i \in 1 .. (Steps(o, d) - 1) |->
        <<o[1] + i * Sign(d[1] - o[1]), o[2] + i * Sign(d[2] - o[2])>>]
Diagonal(o, d) == Abs(d[1] - o[1]) = Abs(d[2] - o[2])
Straight(o, d) == d[1] = o[1] \/ d[2] = o[2]
Clear(b, o, d) == \A i \in 1 .. (Steps(o, d) - 1) : On(b, PathBetween(o, d)[i]) = None

\* C13: on every board and for every two different squares of the board the
\* bishop rule answers True exactly for a diagonal whose squares strictly
\* between are all empty; on a diagonal its loop reads the squares strictly
\* between in order from the origin, stops only at an occupied one (so it reads
\* the second to last when nothing before it blocks), and never reads the
\* origin or the destination.
C13_BishopRule ==
    BeforeAnyQuery =>
    \A o \in Squares : \A d \in Squares \ {o} :
        /\ \A c \in Colors :
              Bishop_is_move_valid(c, o[1], o[2], d[1], d[2], On(board, d), board)
              <=> (Diagonal(o, d) /\ Clear(board, o, d))
        /\ Diagonal(o, d) =>
              LET path == PathBetween(o, d)
                  seen == BishopInspected(board, o[1] + Sign(d[1] - o[1]), o[2] + Sign(d[2] - o[2]),
                                          Sign(d[1] - o[1]), Sign(d[2] - o[2]), d[1], d[2])
              IN  /\ Len(seen) <= Len(path)
                  /\ \A i \in 1 .. Len(seen) : seen[i] = path[i] /\ seen[i] # o /\ seen[i] # d
                  /\ \A i \in 1 .. (Len(seen) - 1) : On(board, seen[i]) = None
                  /\ Len(seen) < Len(path) => On(board, seen[Len(seen)]) # None

\* the bishop rule was asked on a board where some bishop has a diagonal of
\* three or more squares between, blocked on the second to last square only
C13_BlockedOnTheSecondToLast ==
    /\ asked.kind = "B" /\ ret = "False" /\ exit = 389
    /\ \E o \in Squares : \E d \in Squares \ {o} :
          /\ On(board, o).kind = "B" /\ Diagonal(o, d) /\ Steps(o, d) >= 4
          /\ \A i \in 1 .. (Steps(o, d) - 2) : On(board, PathBetween(o, d)[i]) = None
          /\ On(board, PathBetween(o, d)[Steps(o, d) - 1]) # None
          /\ ~Bishop_is_move_valid(On(board, o).color, o[1], o[2], d[1], d[2], On(board, d), board)
\* C14: on every board and for every two different squares of the board the
\* rook rule answers True exactly when the squares share a row or a column and
\* the squares strictly between are empty, whatever stands on the destination;
\* on the new game make_move("a1", "a5") is rejected and changes nothing.
C14_RookRule ==
    /\ BeforeAnyQuery =>
        \A o \in Squares : \A d \in Squares \ {o} : \A c \in Colors :
          /\ Rook_is_move_valid(c, o[1], o[2], d[1], d[2], On(board, d), board)
             <=> (Straight(o, d) /\ Clear(board, o, d))
          /\ Straight(o, d) =>
                \A x \in {None, Pawn(c), King(Opponent(c))} :
                    Rook_is_move_valid(c, o[1], o[2], d[1], d[2], x, SetAt(board, d[1], d[2], x))
                    = Rook_is_move_valid(c, o[1], o[2], d[1], d[2], On(board, d), board)
    /\ (board = NewBoard /\ turn = "w" /\ status = "UNFINISHED") =>
          LET r == make_move(board, turn, status, Sq("a", 1), Sq("a", 5))
          IN  r.ret = "False" /\ Same(r)

\* a rook has moved along a line, over at least one square
C14_RookCrossedASquare ==
    /\ ret = "True" /\ exit = 395
    /\ LET o == Coord(moved[1])  d == Coord(moved[2])
       IN  /\ o \in Squares /\ On(board, d).kind = "R"
           /\ Straight(o, d) /\ Steps(o, d) >= 2
\* C15: on every board and for every two different squares of the board the
\* queen rule answers what the rook rule or the bishop rule answers for the
\* same arguments: True exactly for a straight or diagonal line whose squares
\* strictly between are all empty.
C15_QueenRule ==
    BeforeAnyQuery =>
    \A o \in Squares : \A d \in Squares \ {o} : \A c \in Colors :
        /\ Queen_is_move_valid(c, o[1], o[2], d[1], d[2], On(board, d), board)
           = (\/ Rook_is_move_valid(c, o[1], o[2], d[1], d[2], On(board, d), board)
              \/ Bishop_is_move_valid(c, o[1], o[2], d[1], d[2], On(board, d), board))
        /\ Queen_is_move_valid(c, o[1], o[2], d[1], d[2], On(board, d), board)
           <=> ((Straight(o, d) \/ Diagonal(o, d)) /\ Clear(board, o, d))

\* a queen has moved along a diagonal, over at least one square
C15_QueenCrossedADiagonal ==
    /\ ret = "True" /\ exit = 395
    /\ LET o == Coord(moved[1])  d == Coord(moved[2])
       IN  /\ o \in Squares /\ On(board, d).kind = "Q"
           /\ Diagonal(o, d) /\ Steps(o, d) >= 2

\* the board b with every square other than o and d holding x
Elsewhere(b, o, d, x) ==
    [row \in Idx |-> [col \in Idx |-> IF <<row, col>> \in {o, d} THEN b[row][col] ELSE x]]

\* C16: the knight rule answers True exactly for an offset of one row and two
\* files or two rows and one file, whatever the squares other than origin and
\* destination hold; on the new game make_move("b1", "c3") is executed and
\* gives the move to Black.
C16_KnightRule ==
    /\ BeforeAnyQuery =>
        \A o \in Squares : \A d \in Squares \ {o} : \A c \in Colors :
          LET jump == {Abs(d[1] - o[1]), Abs(d[2] - o[2])} = {1, 2}
          IN  /\ Knight_is_move_valid(c, o[1], o[2], d[1], d[2], On(board, d), board) <=> jump
              /\ \A x \in {None, Pawn(c)} :
                    Knight_is_move_valid(c, o[1], o[2], d[1], d[2], On(board, d),
                                         Elsewhere(board, o, d, x)) <=> jump
    /\ (board = NewBoard /\ turn = "w" /\ status = "UNFINISHED") =>
          LET r == make_move(board, turn, status, Sq("b", 1), Sq("c", 3))
          IN  /\ r.ret = "True" /\ r.turn = "b" /\ r.status = "UNFINISHED"
              /\ r.board[5][2] = Knight("w") /\ r.board[7][1] = None

\* a knight has jumped over an occupied square next to both its origin and
\* its destination
C16_KnightJumped ==
    /\ ret = "True" /\ exit = 395
    /\ LET o == Coord(moved[1])  d == Coord(moved[2])
       IN  /\ o \in Squares /\ On(board, d).kind = "N"
           /\ \E sq \in Squares \ {o, d} :
                 Near(sq, o) /\ Near(sq, d) /\ On(board, sq) # None
\* C17: an executed capture with origin o and destination d changes only the
\* square o and squares that are d or next to d on the board; every other
\* square holds afterwards what it held before.
C17_CaptureFrame ==
    [][Captures =>
        LET o == Coord(moved'[1])
            d == Coord(moved'[2])
        IN  \A sq \in Squares :
                (sq # o /\ ~Near(sq, d)) => On(board', sq) = On(board, sq)]_vars
\* C18: a call whose origin names a square outside the board (rank outside
\* 1..8 or file outside a..h) returns False and changes nothing, whatever the
\* destination.
C18_OriginOutsideIsRejected ==
    \A string_from \in Strings \ BoardStrings :
        \A string_to \in Arguments(string_from) :
            LET r == make_move(board, turn, status, string_from, string_to)
            IN  r.ret = "False" /\ Same(r)
Kings(b, c) == Cardinality({sq \in Squares : On(b, sq) = King(c)})

KingsMatchStatus ==
    /\ status = "UNFINISHED" => (Kings(board, "w") = 1 /\ Kings(board, "b") = 1)
    /\ status = "WHITE WON" => (Kings(board, "w") = 1 /\ Kings(board, "b") = 0)
    /\ status = "BLACK WON" => (Kings(board, "b") = 1 /\ Kings(board, "w") = 0)

\* C19: in every reachable state the board holds one king of each colour while
\* the status is UNFINISHED, one White king and no Black king when it is WHITE
\* WON, one Black king and no White king when it is BLACK WON; no executed
\* move removes the mover's own king, and none removes both kings.
C19_KingInvariant ==
    /\ []KingsMatchStatus
    /\ [][ret' = "True" =>
            /\ Kings(board', turn) = Kings(board, turn)
            /\ Kings(board', "w") + Kings(board', "b") >= 1]_vars

\* Black has won by a capture: the White king is gone, the Black king stands
C19_OnlyTheBlackKingIsLeft ==
    /\ ret = "True" /\ exit = 417 /\ status = "BLACK WON"
    /\ Kings(board, "b") = 1 /\ Kings(board, "w") = 0
Count(b, p) == Cardinality({sq \in Squares : On(b, sq) = p})

Total(b) == Cardinality({sq \in Squares : On(b, sq) # None})

\* C20: no call raises the number of pieces of any kind and colour (a call
\* that leaves the board as it was leaves every number as it was); an
\* executed move onto an empty square keeps the number of pieces, an executed
\* capture lowers it by at least 2, taking both the capturing piece and the
\* captured piece off the board.
C20_MaterialNeverGrows ==
    [][(board' # board \/ ret' = "True") =>
        /\ \A k \in Kinds : \A c \in Colors :
              Count(board', Piece(k, c)) <= Count(board, Piece(k, c))
        /\ Relocates => Total(board') = Total(board)
        /\ Captures =>
              LET capturing == Mover(board, moved'[1])
                  captured == On(board, Coord(moved'[2]))
              IN  /\ Total(board') <= Total(board) - 2
                  /\ Count(board', capturing) = Count(board, capturing) - 1
                  /\ Count(board', captured) < Count(board, captured)
                  /\ On(board', Coord(moved'[2])) = None]_vars

\* a capture has been executed and fewer than 31 pieces are left
C20_CaptureLoweredTheCount ==
    /\ ret = "True" /\ exit = 417
    /\ Total(board) <= 30
\* C21: in every reachable state each file holds at most one White pawn and at
\* most one Black pawn, no White pawn stands on row 7 and no Black pawn on row 0.
C21_PawnStructure ==
    /\ \A c \in Colors : \A col \in Idx :
          Cardinality({row \in Idx : board[row][col] = Pawn(c)}) <= 1
    /\ \A col \in Idx : board[7][col] # Pawn("w") /\ board[0][col] # Pawn("b")
====
